---- MODULE Spec2Model ----
(***************************************************************************)
(* Model of backend/index.js (MongoDB variant with the health endpoint and *)
(* the four-field update, src/backend/index.js lines 271-432).             *)
(*                                                                         *)
(* One action per HTTP route; every action is the whole request: the       *)
(* authMiddleware gate, the handler body, the single store operation the   *)
(* handler awaits and its catch block.  The store operations of the driver *)
(* (find, insertOne, updateOne, deleteOne) are operators over a sequence   *)
(* of documents kept in insertion order.                                   *)
(***************************************************************************)
EXTENDS Integers, Sequences, FiniteSets, TLC

\* ------------------------------------------------------------------ bounds
\* number of requests the process answers in one run
MaxRequests == 3

\* ------------------------------------------------------------------ values
\* JSON values keep their JavaScript type so that typeof can be modelled.
Str(s) == [t |-> "string", v |-> s]
Bool(b) == [t |-> "boolean", v |-> b]
Num(n) == [t |-> "number", v |-> n]
TypeOf(x) == x.t

\* a JSON object with no field ({} after express.json())
EmptyDoc == [f \in {} |-> Str("")]

Users == {"A", "B"}
Ids == {"k1", "k2"}

\* ----------------------------------------------------------------- requests
\* An Authorization header is the list of its space-separated words; the
\* empty list is a request without the header.
NoHeader == <<>>
Headers ==
    { NoHeader, <<"Basic", "tokA">>, <<"Bearer", "forged">>,
      <<"Bearer", "tokA">>, <<"Bearer", "tokB">> }

\* authClient.verifyIdToken: the subject of a token the provider accepts,
\* "throws" for every other token
verifyIdToken(token) ==
    CASE token = "tokA" -> "A"
      [] token = "tokB" -> "B"
      [] OTHER -> "throws"

\* variant: any two-word header is taken for a bearer credential
startsWithAnyScheme(h) == Len(h) >= 2

\* authHeader.startsWith('Bearer ')
startsWithBearer(h) == Len(h) >= 2 /\ h[1] = "Bearer"

\* authMiddleware: status 0 stands for next() with req.userId = sub
authMiddleware(h) ==
    IF h = NoHeader \/ ~startsWithBearer(h)
    THEN [status |-> 401, error |-> "No token provided", sub |-> "none"]
    ELSE IF verifyIdToken(h[2]) = "throws"
         THEN [status |-> 401, error |-> "Invalid token", sub |-> "none"]
         ELSE [status |-> 0, error |-> "", sub |-> verifyIdToken(h[2])]

\* request bodies of POST /api/keys
BaseKey(id) ==
    [id |-> Str(id), name |-> Str("svc"), value |-> Str("secret"),
     type |-> Str("token"), created_at |-> Str("2024-01-01")]
Spoof(u) == [user_id |-> Str(u), owner_id |-> Str(u)]
CreateBodies ==
    { BaseKey(id) : id \in Ids }
    \cup { Spoof(u) @@ [favorite |-> Bool("true")] @@ BaseKey(id) : id \in Ids, u \in Users }

\* request bodies of PUT /api/keys/:id
UpdateBodies ==
    { EmptyDoc,
      [value |-> Str("hack"), user_id |-> Str("B")],
      [favorite |-> Str("yes"), name |-> Str("n2"), notes |-> Str("x"), order |-> Num("1")],
      [favorite |-> Bool("true"), user_id |-> Str("B"), id |-> Str("k2")],
      [name |-> Str("n2"), notes |-> Str("x"), order |-> Num("1"), value |-> Str("hack")] }

\* -------------------------------------------------------------------- state
VARIABLES
    running,         \* FALSE after process.exit(1)
    topology,        \* mongoClient.topology: "undefined", "connecting", "connected", "closed"
    keysCollection,  \* "undefined" until the connect promise resolves, then "keys"
    store,           \* the documents of collection "keys", in insertion order
    nextOid,         \* the next _id the driver generates
    served,          \* number of requests answered so far
    last             \* the last request handled and the response sent for it

vars == <<running, topology, keysCollection, store, nextOid, served, last>>

NoRequest ==
    [op |-> "none", header |-> <<>>, sub |-> "none", id |-> "", body |-> EmptyDoc,
     status |-> 0, error |-> "", result |-> <<>>, insertedId |-> 0,
     handlerRan |-> FALSE, storeOps |-> 0]

Init ==
    /\ running = TRUE
    /\ topology = "undefined"
    /\ keysCollection = "undefined"
    /\ store = <<>>
    /\ nextOid = 1
    /\ served = 0
    /\ last = NoRequest

\* ------------------------------------------------------------- the driver
\* variant: the owner field of the filter is not compared
MatchesIgnoringOwner(doc, filter) ==
    \A f \in DOMAIN filter \ {"user_id"} : f \in DOMAIN doc /\ doc[f] = filter[f]

\* a document matches a filter when it carries every field of the filter
\* with the same value
Matches(doc, filter) ==
    \A f \in DOMAIN filter : f \in DOMAIN doc /\ doc[f] = filter[f]

Matching(docs, filter) == { i \in 1..Len(docs) : Matches(docs[i], filter) }

FirstMatch(docs, filter) ==
    CHOOSE i \in Matching(docs, filter) : \A j \in Matching(docs, filter) : i <= j

\* variant: find({}) returns the whole collection
findAll(docs, filter) == docs

\* collection.find(filter).toArray()
find(docs, filter) == SelectSeq(docs, LAMBDA d : Matches(d, filter))

\* collection.insertOne(doc): the driver adds the generated _id
insertOne(docs, doc, oid) == Append(docs, [_id |-> Num(oid)] @@ doc)

\* collection.updateOne(filter, {$set: fields})
updateOne(docs, filter, fields) ==
    IF Matching(docs, filter) = {}
    THEN [matchedCount |-> 0, docs |-> docs]
    ELSE [matchedCount |-> 1,
          docs |-> [docs EXCEPT ![FirstMatch(docs, filter)] = fields @@ @]]

\* variant: deleteMany removes every matching document
deleteMany(docs, filter) ==
    [deletedCount |-> Cardinality({ i \in 1..Len(docs) : Matches(docs[i], filter) }),
     docs |-> SelectSeq(docs, LAMBDA d : ~Matches(d, filter))]

\* collection.deleteOne(filter)
deleteOne(docs, filter) ==
    IF Matching(docs, filter) = {}
    THEN [deletedCount |-> 0, docs |-> docs]
    ELSE [deletedCount |-> 1,
          docs |-> LET k == FirstMatch(docs, filter)
                   IN  SubSeq(docs, 1, k - 1) \o SubSeq(docs, k + 1, Len(docs))]

\* ----------------------------------------------------------------- startup
\* the driver creates the topology while connect() is in progress
TopologyCreated ==
    /\ running /\ topology = "undefined"
    /\ topology' = "connecting"
    /\ UNCHANGED <<running, keysCollection, store, nextOid, served, last>>

\* mongoClient.connect().then(...)
ConnectResolved ==
    /\ running /\ topology = "connecting"
    /\ topology' = "connected"
    /\ keysCollection' = "keys"
    /\ UNCHANGED <<running, store, nextOid, served, last>>

\* mongoClient.connect().catch(...): process.exit(1)
ConnectRejected ==
    /\ running /\ topology \in {"undefined", "connecting"}
    /\ topology' = "closed"
    /\ running' = FALSE
    /\ UNCHANGED <<keysCollection, store, nextOid, served, last>>

\* ------------------------------------------------------------------ routes
Respond(op, h, sub, id, body, status, error, result, oid, ran, ops) ==
    /\ served' = served + 1
    /\ last' = [op |-> op, header |-> h, sub |-> sub, id |-> id, body |-> body,
                status |-> status, error |-> error, result |-> result,
                insertedId |-> oid, handlerRan |-> ran, storeOps |-> ops]

\* the 401 of authMiddleware; the route handler is not called
Unauthorized(op, h, auth) ==
    /\ Respond(op, h, "none", "", EmptyDoc, auth.status, auth.error, <<>>, 0, FALSE, 0)
    /\ UNCHANGED <<running, topology, keysCollection, store, nextOid>>

\* variant: the presence of a topology is taken for a live connection
hasTopology == topology \notin {"undefined", "closed"}

\* mongoClient?.topology?.isConnected()
isMongoConnected == topology = "connected"

\* GET /api/health
Health(h) ==
    /\ running /\ served < MaxRequests
    /\ IF isMongoConnected
       THEN Respond("health", h, "none", "", EmptyDoc, 200, "OK", <<>>, 0, TRUE, 0)
       ELSE Respond("health", h, "none", "", EmptyDoc, 503, "SERVICE_UNAVAILABLE", <<>>, 0, TRUE, 0)
    /\ UNCHANGED <<running, topology, keysCollection, store, nextOid>>

\* GET /api/keys
GetKeys(h, fail) ==
    /\ running /\ served < MaxRequests
    /\ LET auth == authMiddleware(h) IN
       IF auth.status # 0 THEN Unauthorized("list", h, auth)
       ELSE
         /\ IF keysCollection = "undefined"
            THEN Respond("list", h, auth.sub, "", EmptyDoc, 500, "TypeError", <<>>, 0, TRUE, 0)
            ELSE IF fail
            THEN Respond("list", h, auth.sub, "", EmptyDoc, 500, "StoreError", <<>>, 0, TRUE, 1)
            ELSE Respond("list", h, auth.sub, "", EmptyDoc, 200, "",
                         find(store, [user_id |-> Str(auth.sub)]), 0, TRUE, 1)
         /\ UNCHANGED <<running, topology, keysCollection, store, nextOid>>

\* variant: { user_id: req.userId, ...req.body }, the body wins
newKeyBodyWins(body, sub) == body @@ [user_id |-> Str(sub)]

\* const newKey = { ...req.body, user_id: req.userId }
newKey(body, sub) == [user_id |-> Str(sub)] @@ body

\* POST /api/keys
PostKeys(h, body, fail) ==
    /\ running /\ served < MaxRequests
    /\ LET auth == authMiddleware(h) IN
       IF auth.status # 0 THEN Unauthorized("create", h, auth)
       ELSE IF keysCollection = "undefined"
       THEN /\ Respond("create", h, auth.sub, "", body, 400, "TypeError", <<>>, 0, TRUE, 0)
            /\ UNCHANGED <<running, topology, keysCollection, store, nextOid>>
       ELSE IF fail
       THEN /\ Respond("create", h, auth.sub, "", body, 400, "StoreError", <<>>, 0, TRUE, 1)
            /\ UNCHANGED <<running, topology, keysCollection, store, nextOid>>
       ELSE /\ store' = insertOne(store, newKey(body, auth.sub), nextOid)
            /\ nextOid' = nextOid + 1
            /\ Respond("create", h, auth.sub, "", body, 201, "", <<>>, nextOid, TRUE, 1)
            /\ UNCHANGED <<running, topology, keysCollection>>

\* the fields of the body PUT copies into updateFields
Recognized == {"name", "notes", "favorite", "order"}

\* variant: the typeof check on favorite is missing
validateUpdateUntyped(body) ==
    IF {"name", "notes", "favorite", "order"} \cap DOMAIN body = {}
    THEN [status |-> 400, error |-> "At least one field (name, notes, favorite, order) is required for update."]
    ELSE [status |-> 0, error |-> ""]

\* the validation of PUT: 0 when the body passes, else the 400 of the code
validateUpdate(body) ==
    IF Recognized \cap DOMAIN body = {}
    THEN [status |-> 400, error |-> "At least one field (name, notes, favorite, order) is required for update."]
    ELSE IF "favorite" \in DOMAIN body /\ TypeOf(body["favorite"]) # "boolean"
    THEN [status |-> 400, error |-> "favorite field must be a boolean."]
    ELSE [status |-> 0, error |-> ""]

\* variant: { $set: req.body }
updateWholeBody(body) == body

\* updateFields as built from the body
updateFields(body) == [f \in Recognized \cap DOMAIN body |-> body[f]]

\* PUT /api/keys/:id
PutKey(h, id, body, fail) ==
    /\ running /\ served < MaxRequests
    /\ LET auth == authMiddleware(h)
           check == validateUpdate(body)
           res == updateOne(store, [id |-> Str(id), user_id |-> Str(auth.sub)],
                            updateFields(body))
       IN
       IF auth.status # 0 THEN Unauthorized("update", h, auth)
       ELSE IF check.status # 0
       THEN /\ Respond("update", h, auth.sub, id, body, check.status, check.error, <<>>, 0, TRUE, 0)
            /\ UNCHANGED <<running, topology, keysCollection, store, nextOid>>
       ELSE IF keysCollection = "undefined"
       THEN /\ Respond("update", h, auth.sub, id, body, 400, "TypeError", <<>>, 0, TRUE, 0)
            /\ UNCHANGED <<running, topology, keysCollection, store, nextOid>>
       ELSE IF fail
       THEN /\ Respond("update", h, auth.sub, id, body, 400, "StoreError", <<>>, 0, TRUE, 1)
            /\ UNCHANGED <<running, topology, keysCollection, store, nextOid>>
       ELSE /\ store' = res.docs
            /\ IF res.matchedCount = 0
               THEN Respond("update", h, auth.sub, id, body, 404,
                            "Key not found or user not authorized", <<>>, 0, TRUE, 1)
               ELSE Respond("update", h, auth.sub, id, body, 200,
                            "Updated successfully", <<>>, 0, TRUE, 1)
            /\ UNCHANGED <<running, topology, keysCollection, nextOid>>

\* DELETE /api/keys/:id
DeleteKey(h, id, fail) ==
    /\ running /\ served < MaxRequests
    /\ LET auth == authMiddleware(h)
           res == deleteOne(store, [id |-> Str(id), user_id |-> Str(auth.sub)])
       IN
       IF auth.status # 0 THEN Unauthorized("delete", h, auth)
       ELSE IF keysCollection = "undefined"
       THEN /\ Respond("delete", h, auth.sub, id, EmptyDoc, 400, "TypeError", <<>>, 0, TRUE, 0)
            /\ UNCHANGED <<running, topology, keysCollection, store, nextOid>>
       ELSE IF fail
       THEN /\ Respond("delete", h, auth.sub, id, EmptyDoc, 400, "StoreError", <<>>, 0, TRUE, 1)
            /\ UNCHANGED <<running, topology, keysCollection, store, nextOid>>
       ELSE /\ store' = res.docs
            /\ IF res.deletedCount = 0
               THEN Respond("delete", h, auth.sub, id, EmptyDoc, 404,
                            "Key not found or user not authorized", <<>>, 0, TRUE, 1)
               ELSE Respond("delete", h, auth.sub, id, EmptyDoc, 204, "", <<>>, 0, TRUE, 1)
            /\ UNCHANGED <<running, topology, keysCollection, nextOid>>

Next ==
    \/ TopologyCreated
    \/ ConnectResolved
    \/ ConnectRejected
    \/ \E h \in Headers : Health(h)
    \/ \E h \in Headers, fail \in BOOLEAN : GetKeys(h, fail)
    \/ \E h \in Headers, body \in CreateBodies, fail \in BOOLEAN : PostKeys(h, body, fail)
    \/ \E h \in Headers, id \in Ids, body \in UpdateBodies, fail \in BOOLEAN : PutKey(h, id, body, fail)
    \/ \E h \in Headers, id \in Ids, fail \in BOOLEAN : DeleteKey(h, id, fail)

Spec == Init /\ [][Next]_vars

TypeOK ==
    /\ running \in BOOLEAN
    /\ topology \in {"undefined", "connecting", "connected", "closed"}
    /\ keysCollection \in {"undefined", "keys"}
    /\ served \in 0..MaxRequests
    /\ nextOid \in 1..(MaxRequests + 1)
    /\ Len(store) < nextOid

\* =================================================================== claims
Protected == {"list", "create", "update", "delete"}

\* the step answers a request (connection steps leave served alone)
Answered == served' = served + 1

\* number of documents with this id owned by this identity
Count(docs, sub, id) ==
    Cardinality({ i \in 1..Len(docs) :
                    docs[i]["id"] = Str(id) /\ docs[i]["user_id"] = Str(sub) })

\* the id exists in the collection, but only under other owners
ForeignOnly(docs, sub, id) ==
    /\ \E i \in 1..Len(docs) : docs[i]["id"] = Str(id)
    /\ Count(docs, sub, id) = 0

\* a body the validation of PUT has to reject
Rejectable(body) ==
    \/ DOMAIN body \cap {"name", "notes", "favorite", "order"} = {}
    \/ "favorite" \in DOMAIN body /\ body["favorite"].t # "boolean"

NotFound(r) == r.status = 404 /\ r.error = "Key not found or user not authorized"

\* ----------------------------------------------------------------------- C1
\* C1 as claimed: an Update or Delete by an identity against an id that only
\* other identities own is answered 404 and changes no document (read for
\* requests whose store operation does not itself fail).
C1_Original ==
    [][ ( /\ Answered
          /\ last'.op \in {"update", "delete"}
          /\ last'.sub \in Users
          /\ ForeignOnly(store, last'.sub, last'.id)
          /\ last'.error # "StoreError" )
        => (last'.status = 404 /\ store' = store) ]_vars

\* C1 as amended: an Update or Delete by an identity that owns no document
\* with the id (the id is owned by others only, or by nobody) is never
\* answered 200 or 204 and changes no document; it is answered 404 when the
\* body passes the validation of PUT and the store operation completes, and
\* 400 otherwise, with the same status and message whether or not another
\* identity owns the id.
C1_Isolation ==
    [][ ( /\ Answered
          /\ last'.op \in {"update", "delete"}
          /\ last'.sub \in Users
          /\ Count(store, last'.sub, last'.id) = 0 )
        => /\ store' = store
           /\ last'.status \notin {200, 204}
           /\ IF last'.op = "update" /\ Rejectable(last'.body)
              THEN last'.status = 400 /\ last'.storeOps = 0
              ELSE IF keysCollection = "undefined"
              THEN last'.status = 400 /\ last'.error = "TypeError"
              ELSE \/ NotFound(last')
                   \/ last'.status = 400 /\ last'.error = "StoreError" ]_vars

C1_Witness ==
    /\ last.op = "update"
    /\ NotFound(last)
    /\ ForeignOnly(store, last.sub, last.id)

\* ----------------------------------------------------------------------- C2
\* C2: the document inserted by a 201 Create carries the caller's verified
\* subject as user_id whatever the body says, and is found by List for the
\* caller and for no other identity.
C2_OwnerFromToken ==
    (last.op = "create" /\ last.status = 201)
    => \E i \in 1..Len(store) :
         /\ store[i]["_id"] = Num(last.insertedId)
         /\ store[i]["user_id"] = Str(last.sub)
         /\ last.sub = verifyIdToken(last.header[2])
         /\ \A u \in Users :
              (\E j \in 1..Len(find(store, [user_id |-> Str(u)])) :
                   find(store, [user_id |-> Str(u)])[j] = store[i])
              <=> u = last.sub

C2_Witness ==
    /\ last.op = "create" /\ last.status = 201
    /\ "user_id" \in DOMAIN last.body
    /\ last.body["user_id"] # Str(last.sub)
    /\ last.body["owner_id"] # Str(last.sub)

\* ----------------------------------------------------------------------- C3
\* C3: unless the store operation itself fails, the body of List under an
\* identity holds every stored document owned by it, each once, and no
\* document of another owner.
C3_ListExact ==
    (last.op = "list" /\ last.sub \in Users /\ last.error # "StoreError")
    => /\ \A i \in 1..Len(store) :
            (store[i]["user_id"] = Str(last.sub))
            <=> (\E j \in 1..Len(last.result) : last.result[j] = store[i])
       /\ \A j \in 1..Len(last.result) :
            \E i \in 1..Len(store) : last.result[j] = store[i]
       /\ Len(last.result) =
            Cardinality({ i \in 1..Len(store) : store[i]["user_id"] = Str(last.sub) })

C3_Witness ==
    /\ last.op = "list" /\ last.status = 200
    /\ Len(last.result) >= 1
    /\ Len(store) > Len(last.result)

\* ----------------------------------------------------------------------- C4
\* C4 as claimed: the document a 201 Create stores, as List returns it to
\* the caller, has every field of the payload (the owner field excepted) and
\* favorite = false when the payload had no favorite.
C4_RoundTrip ==
    (last.op = "create" /\ last.status = 201)
    => \E j \in 1..Len(find(store, [user_id |-> Str(last.sub)])) :
         LET r == find(store, [user_id |-> Str(last.sub)])[j] IN
         /\ r["_id"] = Num(last.insertedId)
         /\ \A f \in DOMAIN last.body \ {"user_id"} :
              f \in DOMAIN r /\ r[f] = last.body[f]
         /\ "favorite" \notin DOMAIN last.body
              => ("favorite" \in DOMAIN r /\ r["favorite"] = Bool("false"))

\* ----------------------------------------------------------------------- C5
\* C5: an Update whose body has no recognized field, or has a non-boolean
\* favorite (whatever else it carries), is answered 400 without a store
\* operation and no document changes.
C5_RejectedWritesNothing ==
    [][ ( /\ Answered
          /\ last'.op = "update"
          /\ last'.sub \in Users
          /\ Rejectable(last'.body) )
        => /\ last'.status = 400
           /\ last'.storeOps = 0
           /\ store' = store ]_vars

C5_Witness ==
    /\ last.op = "update" /\ last.status = 400
    /\ "favorite" \in DOMAIN last.body
    /\ last.body["favorite"] = Str("yes")
    /\ "name" \in DOMAIN last.body
    /\ Count(store, last.sub, last.id) >= 1

\* ----------------------------------------------------------------------- C6
\* C6 as claimed: after a Delete answered 204 the caller's List holds no
\* document with that id, and the same Delete repeated next is answered 404
\* (read for requests whose store operation does not itself fail).
C6_Original ==
    [][ /\ ( /\ Answered
             /\ last'.op = "delete"
             /\ last'.status = 204 )
           => Count(store', last'.sub, last'.id) = 0
        /\ ( /\ Answered
             /\ last.op = "delete" /\ last.status = 204
             /\ last'.op = "delete"
             /\ last'.sub = last.sub /\ last'.id = last.id
             /\ last'.error # "StoreError" )
           => last'.status = 404 ]_vars

\* C6 as amended: a Delete answered 204 removes exactly one document of the
\* caller with that id and nothing else; no request other than a Create adds
\* a document; a Delete by an identity holding no document with the id is
\* answered 404 (400 when the store operation itself fails).  Hence after a
\* 204 for an id of which the caller held exactly one document, List holds
\* no document with that id and the next Delete of it, with no Create in
\* between, is answered 404.
C6_DeleteFinal ==
    [][ /\ ( /\ Answered
             /\ last'.op = "delete"
             /\ last'.status = 204 )
           => /\ Count(store, last'.sub, last'.id) >= 1
              /\ Count(store', last'.sub, last'.id) = Count(store, last'.sub, last'.id) - 1
              /\ Len(store') = Len(store) - 1
              /\ \A i \in 1..Len(store') : \E k \in 1..Len(store) : store'[i] = store[k]
        /\ ( last'.op # "create" )
           => \A u \in Users, id \in Ids : Count(store', u, id) <= Count(store, u, id)
        /\ ( /\ Answered
             /\ last'.op = "delete"
             /\ last'.sub \in Users
             /\ keysCollection = "keys"
             /\ Count(store, last'.sub, last'.id) = 0 )
           => /\ store' = store
              /\ \/ NotFound(last')
                 \/ last'.status = 400 /\ last'.error = "StoreError" ]_vars

C6_Witness ==
    /\ last.op = "delete" /\ last.status = 204
    /\ Count(store, last.sub, last.id) = 0
    /\ nextOid >= 2

\* ----------------------------------------------------------------------- C7
\* a header that is absent, is not a Bearer credential, or carries a token
\* the provider does not accept
BadHeader(h) ==
    \/ h = <<>>
    \/ h[1] # "Bearer"
    \/ h[2] \notin {"tokA", "tokB"}

\* C7: on a protected route a request with such a header is answered 401,
\* its handler is not run, no store operation is issued and the store is
\* unchanged; a handler that runs has the subject of a verified token.
C7_GateFirst ==
    [][ /\ ( /\ Answered
             /\ last'.op \in Protected
             /\ BadHeader(last'.header) )
           => /\ last'.status = 401
              /\ ~last'.handlerRan
              /\ last'.storeOps = 0
              /\ store' = store
        /\ ( /\ Answered
             /\ last'.op \in Protected
             /\ last'.handlerRan )
           => /\ ~BadHeader(last'.header)
              /\ last'.sub \in Users
              /\ last'.sub = (IF last'.header[2] = "tokA" THEN "A" ELSE "B") ]_vars

C7_Witness ==
    /\ last.op \in Protected
    /\ last.header = <<"Basic", "tokA">>
    /\ last.status = 401
    /\ Len(store) >= 1

\* ----------------------------------------------------------------------- C8
\* C8 as claimed: a process whose initial connection attempt fails has
\* answered no request, and no protected handler runs while keysCollection
\* is not initialised.
C8_FailFast ==
    [][ /\ (topology' = "closed") => (served' = 0)
        /\ ( /\ Answered
             /\ last'.op \in Protected
             /\ last'.handlerRan )
           => keysCollection = "keys" ]_vars

\* ----------------------------------------------------------------------- C9
\* C9: whatever the Authorization header, the health probe issues no store
\* operation and changes nothing; it answers 200 OK exactly when the
\* topology reports connected, and 503 SERVICE_UNAVAILABLE otherwise, also
\* before the initial connection has completed.
C9_Health ==
    [][ ( Answered /\ last'.op = "health" )
        => /\ last'.storeOps = 0
           /\ store' = store
           /\ IF topology = "connected"
              THEN last'.status = 200 /\ last'.error = "OK"
              ELSE last'.status = 503 /\ last'.error = "SERVICE_UNAVAILABLE" ]_vars

C9_Witness ==
    /\ last.op = "health"
    /\ last.header = <<>>
    /\ last.status = 503
    /\ topology = "connecting"

\* ---------------------------------------------------------------------- C10
\* C10: an Update answered 200 changes one document, which has the id of the
\* request and the caller as owner; in it the recognized fields of the body
\* take the values of the body and every other field keeps its value; every
\* other document is unchanged.  In every step a document that stays in the
\* collection keeps its user_id.
C10_PartialWrite ==
    [][ /\ ( /\ Answered
             /\ last'.op = "update"
             /\ last'.status = 200 )
           => /\ Len(store') = Len(store)
              /\ \E k \in 1..Len(store) :
                   /\ store[k]["id"] = Str(last'.id)
                   /\ store[k]["user_id"] = Str(last'.sub)
                   /\ \A j \in 1..Len(store) : j # k => store'[j] = store[j]
                   /\ DOMAIN store'[k] =
                        DOMAIN store[k] \cup (DOMAIN last'.body \cap {"name", "notes", "favorite", "order"})
                   /\ \A f \in DOMAIN store'[k] :
                        store'[k][f] =
                          IF f \in DOMAIN last'.body /\ f \in {"name", "notes", "favorite", "order"}
                          THEN last'.body[f]
                          ELSE store[k][f]
        /\ \A i \in 1..Len(store), j \in 1..Len(store') :
             store'[j]["_id"] = store[i]["_id"]
             => store'[j]["user_id"] = store[i]["user_id"] ]_vars

C10_Witness ==
    /\ last.op = "update" /\ last.status = 200
    /\ "user_id" \in DOMAIN last.body
    /\ Len(store) >= 2
    /\ \E i \in 1..Len(store) :
         /\ store[i]["id"] = Str(last.id)
         /\ store[i]["user_id"] = Str(last.sub)
         /\ store[i]["user_id"] # last.body["user_id"]
         /\ "favorite" \in DOMAIN store[i]
         /\ store[i]["favorite"] = last.body["favorite"]
====
